---- MODULE Spec2Model ----
(***************************************************************************)
(* A model of xpra's win32 keyboard support                                *)
(* (src/xpra/platform/win32/keyboard.py, class Keyboard): the modifier     *)
(* bindings, the NumLock / AltGr patches of mask_to_names, and the         *)
(* Control_L / Alt_R disambiguation done by process_key_event and the      *)
(* GLib timeout send_delayed_key.                                          *)
(*                                                                         *)
(* Everything runs on the GLib main loop thread: a handler (a key event,   *)
(* a timeout callback, a keymap update) is one atomic action.  The key     *)
(* state GetKeyState reports belongs to the thread's message queue: it     *)
(* changes between handlers (action KeyStateChange), not within one.       *)
(***************************************************************************)
EXTENDS Integers, Sequences, FiniteSets, TLC

\* How many key events arrive in a run.
MaxEvents == 3

\* How many items the options given to audio_option_or_all hold.
MaxItems == 2

\* Python's None.
None == "None"

\* The values GetKeyState returns (a SHORT): the low bit is the toggle, the
\* high bit says the key is down.  (-127, down with the toggle set, is handled
\* as -128 everywhere and is left out.)
KeyStates == {0, 1, -128}

\* The query raised an exception instead of returning (a value no SHORT has).
Raises == 32768
QueryResults == KeyStates \cup {Raises}

\* The base class's modifier names, in mask bit order (bit i-1 of the mask).
ModifierNames == <<"shift", "lock", "control", "mod1", "mod2", "mod3", "mod4", "mod5">>

\* The masks mask_to_names is called with: every combination of the shift,
\* control, mod1, mod2 and mod5 bits.
MaskBits == {1, 4, 8, 16, 128}
RECURSIVE SumSet(_)
SumSet(S) == IF S = {} THEN 0 ELSE LET x == CHOOSE y \in S : TRUE IN x + SumSet(S \ {x})
Masks == {SumSet(S) : S \in SUBSET MaskBits}

\* The names of the keys a modifier map may bind.
ModifierKeyNames == {"Num_Lock", "ISO_Level3_Shift", "Mode_switch"}

VARIABLES
    EMULATE_ALTGR,      \* the XPRA_EMULATE_ALTGR toggle, read once at import
    hyper_modifier,     \* self.hyper_modifier
    num_lock_modifier,  \* self.num_lock_modifier
    altgr_modifier,     \* self.altgr_modifier
    modifier_mappings,  \* self.modifier_mappings: <<modifier, <<key names>>>> entries
    modifier_keys,      \* self.modifier_keys: key name -> modifier (None: absent)
    delayed_event,      \* self.delayed_event: <<>> (None) or <<cb, wid, key_event>>
    timers,             \* the GLib timeouts still scheduled, oldest first; each is
                        \* named by the id of the event it was armed for
    sent,               \* what the base process_key_event passed downstream
    arrived,            \* the key events process_key_event was called with
    rmenu,              \* what GetKeyState(VK_RMENU) reports now
    numlock,            \* what GetKeyState(VK_NUMLOCK) reports now
    called,             \* mask_to_names has just returned
    mask,               \* its argument (0 when called is false)
    names,              \* its result (empty when called is false)
    raised,             \* the last handler let an exception escape to its caller
    KEY_TRANSLATIONS,   \* the module-level table: <<(name, keyval, keycode), name>> pairs
    key_shortcuts,      \* the keyboard helper's parsed shortcut bindings
    matched,            \* its last shortcut lookup: <<>> (none yet) or
                        \* <<keyname, modifiers, pressed, primary, action>>
    audio_result        \* the last call of audio_option_or_all: <<>> (none yet) or
                        \* <<items written, options, all_values, result>>

vars == <<EMULATE_ALTGR, hyper_modifier, num_lock_modifier, altgr_modifier,
          modifier_mappings, modifier_keys, delayed_event, timers, sent, arrived,
          rmenu, numlock, called, mask, names, raised, KEY_TRANSLATIONS,
          key_shortcuts, matched, audio_result>>

\* The shortcut table, which belongs to the keyboard helper.
shortcutvars == <<key_shortcuts, matched>>
\* What no handler of the keyboard writes but init_vars, and what is read once
\* at import.
fixedvars == <<EMULATE_ALTGR, KEY_TRANSLATIONS, shortcutvars, audio_result>>

kbvars == <<hyper_modifier, delayed_event, timers, sent, arrived>>
mapvars == <<num_lock_modifier, altgr_modifier, modifier_mappings, modifier_keys>>
maskvars == <<mask, names>>
\* Any handler other than mask_to_names: the list the last call returned is gone.
NotCalled == called' = FALSE /\ mask' = 0 /\ names' = <<>>

----------------------------------------------------------------------------
\* Python list helpers.

\* x in l
In(x, l) == \E i \in DOMAIN l : l[i] = x

\* l.remove(x): drops the first occurrence.
Remove(l, x) ==
    LET i == CHOOSE j \in DOMAIN l : l[j] = x /\ \A k \in 1..(j-1) : l[k] # x
    IN  SubSeq(l, 1, i-1) \o SubSeq(l, i+1, Len(l))

\* for x in xs: if x not in l: l.append(x)
RECURSIVE AppendMissing(_, _)
AppendMissing(l, xs) ==
    IF xs = <<>> THEN l
    ELSE AppendMissing(IF In(Head(xs), l) THEN l ELSE Append(l, Head(xs)), Tail(xs))

\* for x in xs: if x in l: l.remove(x)
RECURSIVE RemovePresent(_, _)
RemovePresent(l, xs) ==
    IF xs = <<>> THEN l
    ELSE RemovePresent(IF In(Head(xs), l) THEN Remove(l, Head(xs)) ELSE l, Tail(xs))

----------------------------------------------------------------------------
\* Modifier bindings.

\* KeyboardBase.set_modifier_mappings: the key name -> modifier table of a map
\* (a later entry of the map wins).
RECURSIVE BaseModifierKeys(_)
BaseModifierKeys(mappings) ==
    IF mappings = <<>> THEN [k \in ModifierKeyNames |-> None]
    ELSE LET n    == Len(mappings)
             rest == BaseModifierKeys(SubSeq(mappings, 1, n-1))
             last == mappings[n]
         IN  [k \in ModifierKeyNames |-> IF In(k, last[2]) THEN last[1] ELSE rest[k]]

\* for x in ("ISO_Level3_Shift", "Mode_switch"): mod = get(x); if mod: ... break
AltGrLookup(keys, current) ==
    IF keys["ISO_Level3_Shift"] # None THEN keys["ISO_Level3_Shift"]
    ELSE IF keys["Mode_switch"] # None THEN keys["Mode_switch"]
    ELSE current

SetModifierMappings(mappings) ==
    /\ modifier_mappings' = mappings
    /\ modifier_keys' = BaseModifierKeys(mappings)
    /\ num_lock_modifier' = modifier_keys'["Num_Lock"]
    /\ altgr_modifier' = AltGrLookup(modifier_keys', altgr_modifier)
    /\ UNCHANGED <<fixedvars, kbvars, rmenu, numlock>>
    /\ NotCalled
    /\ raised' = FALSE

----------------------------------------------------------------------------
\* mask_to_names.

\* A variant that takes a set toggle bit for a key that is down.
RMenuUp_OnlyZero(r) == r = 0

\* A variant that never takes Right-Alt to be down.
RMenuUp_Always(r) == TRUE

\* rmenu in (0, 1): Right-Alt is not down.
RMenuUp(r) == r \in {0, 1}

\* KeyboardBase.mask_to_names: the names whose bit is set, in bit order.
BaseMaskToNames(m) ==
    LET F[i \in 0..Len(ModifierNames)] ==
            IF i = 0 THEN <<>>
            ELSE IF (m \div (2^(i-1))) % 2 = 1 THEN Append(F[i-1], ModifierNames[i])
            ELSE F[i-1]
    IN  F[Len(ModifierNames)]

\* A variant that leaves "control" in the list.
AltGr_modifiers_KeepControl(modifiers, pressed) ==
    LET add   == IF altgr_modifier # None /\ pressed THEN <<altgr_modifier>> ELSE <<>>
        clear == <<"mod1", "mod2">>
                 \o (IF altgr_modifier # None /\ ~pressed THEN <<altgr_modifier>> ELSE <<>>)
    IN  RemovePresent(AppendMissing(modifiers, add), clear)

AltGr_modifiers(modifiers, pressed) ==
    LET add   == IF altgr_modifier # None /\ pressed THEN <<altgr_modifier>> ELSE <<>>
        clear == <<"mod1", "mod2", "control">>
                 \o (IF altgr_modifier # None /\ ~pressed THEN <<altgr_modifier>> ELSE <<>>)
    IN  RemovePresent(AppendMissing(modifiers, add), clear)

\* The NumLock patch: numlock is the query's result, tested for truth; an
\* exception is caught and leaves the list as it is.
NumLockPatch(l, nl) ==
    IF nl = Raises THEN l
    ELSE IF nl # 0 /\ ~In(num_lock_modifier, l) THEN Append(l, num_lock_modifier)
    ELSE IF nl = 0 /\ In(num_lock_modifier, l) THEN Remove(l, num_lock_modifier)
    ELSE l

\* A variant that patches NumLock first and AltGr second.
mask_to_names_NumLockFirst(m, r, nl) ==
    LET base == BaseMaskToNames(m)
        nlp  == IF num_lock_modifier # None THEN NumLockPatch(base, nl) ELSE base
    IN  IF EMULATE_ALTGR /\ ~RMenuUp(r) THEN AltGr_modifiers(nlp, TRUE) ELSE nlp

\* mask_to_names(mask) when GetKeyState(VK_RMENU) returns r and
\* GetKeyState(VK_NUMLOCK) gives nl.
mask_to_names(m, r, nl) ==
    LET base  == BaseMaskToNames(m)
        altgr == IF EMULATE_ALTGR /\ ~RMenuUp(r) THEN AltGr_modifiers(base, TRUE) ELSE base
    IN  IF num_lock_modifier # None THEN NumLockPatch(altgr, nl) ELSE altgr

\* A variant in which the call also drops the pending record.
MaskToNames_DropsPending(m) ==
    /\ IF EMULATE_ALTGR /\ rmenu = Raises
       THEN NotCalled /\ raised' = TRUE
       ELSE /\ mask' = m
            /\ names' = mask_to_names(m, rmenu, numlock)
            /\ called' = TRUE
            /\ raised' = FALSE
    /\ delayed_event' = <<>>
    /\ UNCHANGED <<fixedvars, hyper_modifier, timers, sent, arrived, mapvars, rmenu, numlock>>

\* The Right-Alt query is outside any try: if it raises, nothing is returned.
MaskToNames(m) ==
    /\ IF EMULATE_ALTGR /\ rmenu = Raises
       THEN NotCalled /\ raised' = TRUE
       ELSE /\ mask' = m
            /\ names' = mask_to_names(m, rmenu, numlock)
            /\ called' = TRUE
            /\ raised' = FALSE
    /\ UNCHANGED <<fixedvars, kbvars, mapvars, rmenu, numlock>>

----------------------------------------------------------------------------
\* Key events.

\* (keyname, keyval, keycode, string) of the keys that arrive, and whether their
\* releases arrive too (a release of "a" or of VoidSymbol is handled as its press).
KeyTable ==
    { [keyname |-> "Control_L",  keyval |-> 65507,    keycode |-> 162, string |-> "",
       pressed |-> BOOLEAN],
      [keyname |-> "Alt_R",      keyval |-> 65514,    keycode |-> 165, string |-> "",
       pressed |-> BOOLEAN],
      [keyname |-> "Delete",     keyval |-> 65535,    keycode |-> 46,  string |-> "",
       pressed |-> BOOLEAN],
      [keyname |-> "a",          keyval |-> 97,       keycode |-> 65,  string |-> "a",
       pressed |-> {TRUE}],
      [keyname |-> "VoidSymbol", keyval |-> 16777215, keycode |-> 0,   string |-> "",
       pressed |-> {TRUE}] }

\* The modifiers an arriving event carries.
EventModifiers == { <<>> }

Callbacks == {"send_key_action"}
Wids == {1}

\* The events that may arrive as the id-th: id stands for the object's identity.
KeyEvents(id) ==
    UNION { { [id |-> id, keyname |-> k.keyname, keyval |-> k.keyval,
               keycode |-> k.keycode, group |-> 0, string |-> k.string,
               modifiers |-> m, pressed |-> p]
              : m \in EventModifiers, p \in k.pressed }
            : k \in KeyTable }

\* A variant that does not look at the modifier mappings.
Active_IgnoresMappings == EMULATE_ALTGR /\ altgr_modifier # None

\* EMULATE_ALTGR and self.altgr_modifier and len(self.modifier_mappings)>0
Active == EMULATE_ALTGR /\ altgr_modifier # None /\ Len(modifier_mappings) > 0

\* KeyboardBase.process_key_event: send_key_action_cb(wid, key_event).  via names
\* the call it was reached by: "direct" (the last line of process_key_event),
\* "flush" (send_delayed_key called by process_key_event) or "timeout"
\* (send_delayed_key called by GLib).
BaseProcessKeyEvent(log, cb, wid, key_event, via) ==
    Append(log, [cb |-> cb, wid |-> wid, key_event |-> key_event, via |-> via])

\* A variant that sends the pending event without looking at Right-Alt.
send_delayed_key_Unchecked(dk, log, r, via) ==
    IF dk # <<>> THEN BaseProcessKeyEvent(log, dk[1], dk[2], dk[3], via) ELSE log

\* The body of send_delayed_key: what has been sent once it returns, given the
\* pending record dk (which it always leaves empty).
send_delayed_key(dk, log, r, via) ==
    IF dk # <<>> /\ RMenuUp(r) THEN BaseProcessKeyEvent(log, dk[1], dk[2], dk[3], via) ELSE log

\* A variant that forgets the token.
HyperTranslate_NoToken(key_event) ==
    IF key_event.keyname = "Delete"
    THEN [key_event EXCEPT !.keyname = "Hyper_L", !.keyval = 16777215,
                           !.group = 0, !.keycode = 50]
    ELSE key_event

\* Delete becomes Hyper_L; any other key gains mod4 while the hyper flag is set.
HyperTranslate(key_event) ==
    IF key_event.keyname = "Delete"
    THEN [key_event EXCEPT !.keyname = "Hyper_L", !.keyval = 16777215,
                           !.group = 0, !.keycode = 50]
    ELSE IF hyper_modifier
         THEN [key_event EXCEPT !.modifiers = Append(@, "mod4")]
         ELSE key_event

\* A variant that forgets to clear the keycode.
AltRRefresh_KeepKeycode(key_event) ==
    [key_event EXCEPT !.string = "", !.keyname = "", !.group = -1, !.keyval = -1,
                      !.modifiers = AltGr_modifiers(@, TRUE)]

\* Alt_R under emulation: only a modifier update is left of the event.
AltRRefresh(key_event) ==
    [key_event EXCEPT !.string = "", !.keyname = "", !.group = -1, !.keyval = -1,
                      !.keycode = -1, !.modifiers = AltGr_modifiers(@, TRUE)]

\* A variant that tests the wrong keyval.
IsVoidSymbol_WrongKeyval(key_event) ==
    key_event.keyval = 2^24 /\ key_event.keyname = "VoidSymbol"

\* key_event.keyval==2**24-1 and key_event.keyname=="VoidSymbol"
IsVoidSymbol(key_event) ==
    key_event.keyval = 2^24 - 1 /\ key_event.keyname = "VoidSymbol"

\* A variant that does not call send_delayed_key() before passing the event on.
ProcessKeyEvent_NoFlush(send_key_action_cb, wid, key_event) ==
    /\ Len(arrived) < MaxEvents
    /\ key_event.id = Len(arrived) + 1
    /\ arrived' = Append(arrived, key_event)
    /\ IF IsVoidSymbol(key_event)
       THEN UNCHANGED <<hyper_modifier, delayed_event, timers, sent>> /\ raised' = FALSE
       ELSE LET ev == HyperTranslate(key_event) IN
            /\ hyper_modifier' = IF key_event.keyname = "Delete" THEN key_event.pressed
                                 ELSE hyper_modifier
            /\ IF rmenu = Raises /\ (Active \/ delayed_event # <<>>)
               THEN \* the query of line 341, or that of send_delayed_key (which
                    \* has emptied the pending record by then), raises
                    /\ delayed_event' = IF Active THEN delayed_event ELSE <<>>
                    /\ UNCHANGED <<timers, sent>>
                    /\ raised' = TRUE
               ELSE /\ raised' = FALSE
                    /\ IF Active /\ ev.keyname = "Control_L"
                       THEN /\ IF RMenuUp(rmenu)
                               THEN /\ delayed_event' = <<send_key_action_cb, wid, ev>>
                                    /\ timers' = Append(timers, ev.id)
                               ELSE UNCHANGED <<delayed_event, timers>>
                            /\ sent' = sent
                       ELSE LET altr == Active /\ ev.keyname = "Alt_R"
                                dk   == IF altr /\ RMenuUp(rmenu) THEN <<>>
                                        ELSE delayed_event
                                ev2  == IF altr THEN AltRRefresh(ev) ELSE ev
                            IN  /\ delayed_event' = dk
                                /\ sent' = BaseProcessKeyEvent(
                                               sent, send_key_action_cb, wid, ev2, "direct")
                                /\ timers' = timers
    /\ UNCHANGED <<fixedvars, mapvars, rmenu, numlock>>
    /\ NotCalled

ProcessKeyEvent(send_key_action_cb, wid, key_event) ==
    /\ Len(arrived) < MaxEvents
    /\ key_event.id = Len(arrived) + 1
    /\ arrived' = Append(arrived, key_event)
    /\ IF IsVoidSymbol(key_event)
       THEN UNCHANGED <<hyper_modifier, delayed_event, timers, sent>> /\ raised' = FALSE
       ELSE LET ev == HyperTranslate(key_event) IN
            /\ hyper_modifier' = IF key_event.keyname = "Delete" THEN key_event.pressed
                                 ELSE hyper_modifier
            /\ IF rmenu = Raises /\ (Active \/ delayed_event # <<>>)
               THEN \* the query of line 341, or that of send_delayed_key (which
                    \* has emptied the pending record by then), raises
                    /\ delayed_event' = IF Active THEN delayed_event ELSE <<>>
                    /\ UNCHANGED <<timers, sent>>
                    /\ raised' = TRUE
               ELSE /\ raised' = FALSE
                    /\ IF Active /\ ev.keyname = "Control_L"
                       THEN /\ IF RMenuUp(rmenu)
                               THEN /\ delayed_event' = <<send_key_action_cb, wid, ev>>
                                    /\ timers' = Append(timers, ev.id)
                               ELSE UNCHANGED <<delayed_event, timers>>
                            /\ sent' = sent
                       ELSE LET altr == Active /\ ev.keyname = "Alt_R"
                                dk   == IF altr /\ RMenuUp(rmenu) THEN <<>>
                                        ELSE delayed_event
                                ev2  == IF altr THEN AltRRefresh(ev) ELSE ev
                            IN  /\ delayed_event' = <<>>
                                /\ sent' = BaseProcessKeyEvent(
                                               send_delayed_key(dk, sent, rmenu, "flush"),
                                               send_key_action_cb, wid, ev2, "direct")
                                /\ timers' = timers
    /\ UNCHANGED <<fixedvars, mapvars, rmenu, numlock>>
    /\ NotCalled

\* A variant in which send_delayed_key empties the pending record only when it
\* passes the event on.
TimerFires_ClearsWhenSent ==
    /\ timers # <<>>
    /\ timers' = Tail(timers)
    /\ delayed_event' = IF RMenuUp(rmenu) THEN <<>> ELSE delayed_event
    /\ sent' = send_delayed_key(delayed_event, sent, rmenu, "timeout")
    /\ raised' = (delayed_event # <<>> /\ rmenu = Raises)
    /\ UNCHANGED <<fixedvars, hyper_modifier, arrived, mapvars, rmenu, numlock>>
    /\ NotCalled

\* A variant in which send_delayed_key leaves the pending record in place.
TimerFires_KeepsRecord ==
    /\ timers # <<>>
    /\ timers' = Tail(timers)
    /\ delayed_event' = delayed_event
    /\ sent' = send_delayed_key(delayed_event, sent, rmenu, "timeout")
    /\ raised' = (delayed_event # <<>> /\ rmenu = Raises)
    /\ UNCHANGED <<fixedvars, hyper_modifier, arrived, mapvars, rmenu, numlock>>
    /\ NotCalled

\* A GLib timeout fires: send_delayed_key runs and, returning None, is not rescheduled.
TimerFires ==
    /\ timers # <<>>
    /\ timers' = Tail(timers)
    /\ delayed_event' = <<>>
    /\ sent' = send_delayed_key(delayed_event, sent, rmenu, "timeout")
    /\ raised' = (delayed_event # <<>> /\ rmenu = Raises)
    /\ UNCHANGED <<fixedvars, hyper_modifier, arrived, mapvars, rmenu, numlock>>
    /\ NotCalled

----------------------------------------------------------------------------
\* The operating system's key state.

KeyStateChange(r) ==
    /\ rmenu' = r
    /\ UNCHANGED <<fixedvars, kbvars, mapvars, numlock>>
    /\ NotCalled
    /\ raised' = FALSE

NumLockChange(n) ==
    /\ numlock' = n
    /\ UNCHANGED <<fixedvars, kbvars, mapvars, rmenu>>
    /\ NotCalled
    /\ raised' = FALSE

----------------------------------------------------------------------------
\* The keyboard after construction (init_vars, then __init__).

\* d[k] = v
DictSet(d, k, v) == {e \in d : e[1] # k} \cup {<<k, v>>}

\* A variant that keys the entries by the key name alone.
WithTranslations_ByName(d) ==
    DictSet(DictSet(DictSet(d, <<"period">>, "KP_Decimal"), <<"dead_tilde">>, "asciitilde"),
            <<"dead_grave">>, "grave")

\* The three assignments of init_vars to KEY_TRANSLATIONS.
WithTranslations(d) ==
    DictSet(DictSet(DictSet(d, <<"period", 46, 110>>, "KP_Decimal"),
                    <<"dead_tilde", 65107, 50>>, "asciitilde"),
            <<"dead_grave", 65104, 55>>, "grave")

\* KEY_TRANSLATIONS as xpra.gtk_common.keymap defines it.
BaseKeyTranslations == {}

InitKeyboard ==
    /\ audio_result = <<>>
    /\ key_shortcuts = <<>>
    /\ matched = <<>>
    /\ raised = FALSE
    /\ KEY_TRANSLATIONS = WithTranslations(BaseKeyTranslations)
    /\ hyper_modifier = FALSE
    /\ num_lock_modifier = None
    /\ altgr_modifier = None
    /\ modifier_mappings = <<>>
    /\ modifier_keys = [k \in ModifierKeyNames |-> None]
    /\ delayed_event = <<>>
    /\ timers = <<>>
    /\ sent = <<>>
    /\ arrived = <<>>
    /\ mask = 0
    /\ names = <<>>
    /\ called = FALSE

\* The keymaps the server sends while keys are typed.
KeyMaps ==
    { <<>>,
      << <<"mod5", <<"ISO_Level3_Shift">>>> >> }

Init ==
    /\ InitKeyboard
    /\ EMULATE_ALTGR \in BOOLEAN
    /\ rmenu \in KeyStates
    /\ numlock = 0

Next ==
    \/ \E cb \in Callbacks, wid \in Wids, e \in KeyEvents(Len(arrived) + 1) :
            ProcessKeyEvent(cb, wid, e)
    \/ TimerFires
    \/ \E m \in KeyMaps : SetModifierMappings(m)
    \/ \E r \in KeyStates : KeyStateChange(r)

Spec == Init /\ [][Next]_vars

----------------------------------------------------------------------------
\* mask_to_names under every binding of the NumLock and AltGr keys.

\* The modifiers the server may bind Num_Lock, ISO_Level3_Shift and Mode_switch to
\* (None: the key is not bound).
NumLockBindings == {None, "mod2", "mod1"}
Level3Bindings == {None, "mod5", "mod1"}
ModeSwitchBindings == {None, "mod2"}

\* The modifier map binding the three keys so: one entry per modifier that has
\* keys, in the order of ModifierNames.
KeyMapOf(nl, l3, ms) ==
    LET keysOf(t) ==
            (IF nl = t THEN <<"Num_Lock">> ELSE <<>>)
            \o (IF l3 = t THEN <<"ISO_Level3_Shift">> ELSE <<>>)
            \o (IF ms = t THEN <<"Mode_switch">> ELSE <<>>)
        F[i \in 0..Len(ModifierNames)] ==
            IF i = 0 THEN <<>>
            ELSE IF keysOf(ModifierNames[i]) # <<>>
                 THEN Append(F[i-1], <<ModifierNames[i], keysOf(ModifierNames[i])>>)
                 ELSE F[i-1]
    IN  F[Len(ModifierNames)]

MaskKeyMaps ==
    { KeyMapOf(nl, l3, ms) :
        nl \in NumLockBindings, l3 \in Level3Bindings, ms \in ModeSwitchBindings }

NextMask ==
    \/ \E m \in MaskKeyMaps : SetModifierMappings(m)
    \/ \E r \in KeyStates : KeyStateChange(r)
    \/ \E n \in KeyStates : NumLockChange(n)
    \/ \E m \in Masks : MaskToNames(m)

SpecMask == Init /\ [][NextMask]_vars

----------------------------------------------------------------------------
\* The whole keyboard: key events, timeouts, keymaps, mask_to_names calls and
\* init_vars run again, with key state queries that may raise.

\* init_vars: the base class's fields (as after construction), the NumLock and
\* AltGr modifiers, the pending record and the three table entries.  The hyper
\* flag is set by __init__, not here, and no timeout is cancelled.
InitVars ==
    /\ modifier_mappings' = <<>>
    /\ modifier_keys' = [k \in ModifierKeyNames |-> None]
    /\ num_lock_modifier' = None
    /\ altgr_modifier' = None
    /\ delayed_event' = <<>>
    /\ KEY_TRANSLATIONS' = WithTranslations(KEY_TRANSLATIONS)
    /\ UNCHANGED <<EMULATE_ALTGR, shortcutvars, audio_result, hyper_modifier, timers,
                   sent, arrived, rmenu, numlock>>
    /\ NotCalled
    /\ raised' = FALSE

\* The events that arrive here: presses of Control_L and Delete.
PressEvents(id) ==
    {e \in KeyEvents(id) : e.pressed /\ e.keyname \in {"Control_L", "Delete"}}

\* A map that binds both Num_Lock and an AltGr key, and the empty one.
AllKeyMaps ==
    { <<>>,
      << <<"mod2", <<"Num_Lock">>>>, <<"mod5", <<"ISO_Level3_Shift">>>> >> }

\* shift | control | mod2
AllMasks == {SumSet({1, 4, 16})}

NextAll ==
    \/ \E cb \in Callbacks, wid \in Wids, e \in PressEvents(Len(arrived) + 1) :
            ProcessKeyEvent(cb, wid, e)
    \/ TimerFires
    \/ \E m \in AllKeyMaps : SetModifierMappings(m)
    \/ \E r \in QueryResults : KeyStateChange(r)
    \/ \E n \in {0, 1, Raises} : NumLockChange(n)
    \/ \E m \in AllMasks : MaskToNames(m)
    \/ InitVars

SpecAll == Init /\ [][NextAll]_vars

----------------------------------------------------------------------------
\* Key events and timeouts under a main loop that runs every timeout it has
\* scheduled: GLib calls the callback of a timeout_add source once its delay has
\* passed, so a scheduled timeout does not stay scheduled forever.

\* The events that arrive here: presses of Control_L, Alt_R and "a".
LiveEvents(id) ==
    {e \in KeyEvents(id) : e.pressed /\ e.keyname \in {"Control_L", "Alt_R", "a"}}

NextLive ==
    \/ \E cb \in Callbacks, wid \in Wids, e \in LiveEvents(Len(arrived) + 1) :
            ProcessKeyEvent(cb, wid, e)
    \/ TimerFires
    \/ \E m \in KeyMaps : SetModifierMappings(m)
    \/ \E r \in KeyStates : KeyStateChange(r)

SpecLive == Init /\ [][NextLive]_vars /\ WF_vars(TimerFires)

----------------------------------------------------------------------------
\* The shortcut table of the keyboard helper.  A shortcut specification is the
\* sequence of its words and separators: "#+F4:quit" is <<"#", "+", "F4", ":", "quit">>.

\* The last position of x in l (0: none).
LastIndexOf(l, x) ==
    LET S == {i \in DOMAIN l : l[i] = x}
    IN  IF S = {} THEN 0 ELSE CHOOSE i \in S : \A j \in S : j <= i

\* l split on every sep: the sequence of the parts between them.
RECURSIVE SplitOn(_, _)
SplitOn(l, sep) ==
    LET S == {i \in DOMAIN l : l[i] = sep}
    IN  IF S = {} THEN <<l>>
        ELSE LET i == CHOOSE k \in S : \A j \in S : k <= j
             IN  <<SubSeq(l, 1, i-1)>> \o SplitOn(SubSeq(l, i+1, Len(l)), sep)

\* Modifier names are case-insensitive.
Lower(w) ==
    CASE w \in {"Shift", "SHIFT"} -> "shift"
      [] w \in {"Control", "CONTROL"} -> "control"
      [] w \in {"Meta", "META"} -> "meta"
      [] OTHER -> w

\* The modifier tokens a binding may name.
KnownModifiers ==
    {ModifierNames[i] : i \in DOMAIN ModifierNames} \cup {"meta", "hyper", "altgr", "#"}

\* One specification parsed: split on the last ":", the left side on "+"; the
\* last part is the key name, the parts before it the modifiers.  <<>> when the
\* specification is malformed (no action, empty key name, unknown modifier).
ParseOne(words) ==
    LET c      == LastIndexOf(words, ":")
        left   == SubSeq(words, 1, c-1)
        action == SubSeq(words, c+1, Len(words))
        parts  == SplitOn(left, "+")
        key    == parts[Len(parts)]
        mods   == {IF Len(parts[i]) = 1 THEN Lower(parts[i][1]) ELSE ""
                     : i \in 1..(Len(parts)-1)}
    IN  IF c = 0 \/ Len(action) # 1 \/ Len(key) # 1 \/ ~(mods \subseteq KnownModifiers)
        THEN <<>>
        ELSE <<[modifiers |-> mods, keyname |-> key[1], action |-> action[1]]>>

\* parse: the bindings of the well-formed specifications, in order.
RECURSIVE parse_shortcuts(_)
parse_shortcuts(specs) ==
    IF specs = <<>> THEN <<>>
    ELSE ParseOne(Head(specs)) \o parse_shortcuts(Tail(specs))

\* distinct_modifiers: every modifier some binding names.
distinct_modifiers(bindings) == UNION {bindings[i].modifiers : i \in DOMAIN bindings}

\* The modifier-name table: aliases to canonical tokens (a name it does not
\* hold stands for itself).
get_modifier_names(x) ==
    CASE x = "meta" -> "mod1"
      [] x = "hyper" -> "mod4"
      [] x = "altgr" -> "mod5"
      [] OTHER -> x

\* A variant that compares "#" as a literal token.
Required_LiteralHash(mods, primary) == {get_modifier_names(x) : x \in mods}

\* The modifiers a binding requires once "#" stands for the primary shortcut
\* modifiers and aliases for their tokens.
Required(mods, primary) ==
    {get_modifier_names(x) : x \in (mods \ {"#"}) \cup (IF "#" \in mods THEN primary ELSE {})}

\* A variant that accepts a binding whose modifiers are all held.
matches_Subset(bindings, keyname, active_modifiers, pressed, primary) ==
    LET held == {active_modifiers[i] : i \in DOMAIN active_modifiers}
        hits == {i \in DOMAIN bindings :
                    /\ bindings[i].keyname = keyname
                    /\ Required(bindings[i].modifiers, primary) \subseteq held}
    IN  IF pressed /\ Cardinality(hits) = 1
        THEN bindings[CHOOSE i \in hits : TRUE].action
        ELSE None

\* matches: the action of the one binding whose (modifiers, keyname) equals what
\* is held and pressed, for a press; None otherwise.
matches(bindings, keyname, active_modifiers, pressed, primary) ==
    LET held == {active_modifiers[i] : i \in DOMAIN active_modifiers}
        hits == {i \in DOMAIN bindings :
                    /\ bindings[i].keyname = keyname
                    /\ Required(bindings[i].modifiers, primary) = held}
    IN  IF pressed /\ Cardinality(hits) = 1
        THEN bindings[CHOOSE i \in hits : TRUE].action
        ELSE None

ParseShortcuts(specs) ==
    /\ key_shortcuts' = parse_shortcuts(specs)
    /\ matched' = <<>>
    /\ UNCHANGED <<EMULATE_ALTGR, KEY_TRANSLATIONS, kbvars, mapvars, rmenu, numlock, raised,
                   audio_result>>
    /\ NotCalled

KeyHandledAsShortcut(keyname, active_modifiers, pressed, primary) ==
    /\ matched' = <<keyname, active_modifiers, pressed, primary,
                    matches(key_shortcuts, keyname, active_modifiers, pressed, primary)>>
    /\ UNCHANGED <<EMULATE_ALTGR, KEY_TRANSLATIONS, kbvars, mapvars, rmenu, numlock, raised,
                   key_shortcuts, audio_result>>
    /\ NotCalled

\* The shortcut lists that are parsed: some of the default list, and a list with
\* a two-modifier binding, a binding on "#" and another modifier, and three
\* malformed entries.
ShortcutLists ==
    { << <<"Control", "+", "Menu", ":", "toggle_keyboard_grab">>,
         <<"Shift", "+", "Menu", ":", "toggle_pointer_grab">>,
         <<"Shift", "+", "F11", ":", "toggle_fullscreen">>,
         <<"#", "+", "F1", ":", "show_menu">>,
         <<"#", "+", "F4", ":", "quit">>,
         <<"#", "+", "F11", ":", "show_session_info">> >>,
      << <<"Shift", "+", "Control", "+", "F3", ":", "show_bug_report">>,
         <<"Bogus", "+", "F4", ":", "quit">>,
         <<"Shift", "+", ":", "toggle_fullscreen">>,
         <<"#", "+", "F1">>,
         <<"#", "+", "SHIFT", "+", "F4", ":", "quit">> >> }

ShortcutKeys == {"F1", "F3", "F4", "F11", "Menu"}

\* The modifiers held, in the order they are reported: every sequence without
\* repetition of shift, control and mod1.
RECURSIVE Perms(_)
Perms(S) ==
    IF S = {} THEN {<<>>}
    ELSE UNION {{<<x>> \o p : p \in Perms(S \ {x})} : x \in S}
HeldModifiers == UNION {Perms(S) : S \in SUBSET {"shift", "control", "mod1"}}

\* What "#" may stand for on the platform.
PrimaryModifiers == {{"mod1"}, {"control", "shift"}}

NextShortcuts ==
    \/ \E l \in ShortcutLists : ParseShortcuts(l)
    \/ \E k \in ShortcutKeys, a \in HeldModifiers, p \in BOOLEAN, pm \in PrimaryModifiers :
            KeyHandledAsShortcut(k, a, p, pm)

SpecShortcuts == Init /\ [][NextShortcuts]_vars

----------------------------------------------------------------------------
\* audio_option_or_all (src/xpra/audio/common.py).  A string is the sequence of
\* its characters.

\* x.split(",")
RECURSIVE SplitComma(_)
SplitComma(x) ==
    LET S == {i \in DOMAIN x : x[i] = ","}
    IN  IF S = {} THEN <<x>>
        ELSE LET i == CHOOSE k \in S : \A j \in S : k <= j
             IN  <<SubSeq(x, 1, i-1)>> \o SplitComma(SubSeq(x, i+1, Len(x)))

\* A variant that strips at the left only.
RECURSIVE Strip_LeftOnly(_)
Strip_LeftOnly(o) ==
    IF o # <<>> /\ Head(o) = " " THEN Strip_LeftOnly(Tail(o)) ELSE o

\* o.strip()
RECURSIVE Strip(_)
Strip(o) ==
    IF o # <<>> /\ Head(o) = " " THEN Strip(Tail(o))
    ELSE IF o # <<>> /\ o[Len(o)] = " " THEN Strip(SubSeq(o, 1, Len(o) - 1))
    ELSE o

\* The inner loop: the stripped items of one option that are in all_values,
\* appended to v.
RECURSIVE AppendValid(_, _, _)
AppendValid(v, parts, all_values) ==
    IF parts = <<>> THEN v
    ELSE LET o == Strip(Head(parts))
         IN  AppendValid(IF \E i \in DOMAIN all_values : all_values[i] = o
                         THEN Append(v, o) ELSE v,
                         Tail(parts), all_values)

\* The outer loop over options.
RECURSIVE CollectValid(_, _, _)
CollectValid(v, options, all_values) ==
    IF options = <<>> THEN v
    ELSE CollectValid(AppendValid(v, SplitComma(Head(options)), all_values),
                      Tail(options), all_values)

audio_option_or_all(name, options, all_values) ==
    IF options = <<>> THEN all_values
    ELSE CollectValid(<<>>, options, all_values)

\* What is written on the command line: items, each a codec name (or something
\* else, or nothing) with or without blanks around it, separated by a comma or
\* given as the next option.
ItemNames == {<<"a">>, <<"b">>, <<"a", "b">>, <<"x">>, <<>>}
Items == [core : ItemNames, padded : BOOLEAN]
ItemText(it) == IF it.padded THEN <<" ">> \o it.core \o <<" ">> ELSE it.core

\* The options list of items its, seps[i] standing between item i and item i+1.
RECURSIVE OptionsOf(_, _)
OptionsOf(its, seps) ==
    IF its = <<>> THEN <<>>
    ELSE IF Len(its) = 1 THEN <<ItemText(its[1])>>
    ELSE LET n    == Len(its)
             rest == OptionsOf(SubSeq(its, 1, n-1), SubSeq(seps, 1, n-2))
         IN  IF seps[n-1] = ","
             THEN SubSeq(rest, 1, Len(rest) - 1)
                  \o <<rest[Len(rest)] \o <<",">> \o ItemText(its[n])>>
             ELSE Append(rest, ItemText(its[n]))

\* The codec tuples it is called with.
AllValues ==
    { <<>>,
      << <<"a">>, <<"b">> >>,
      << <<"a", "b">>, <<"a">> >> }

AudioOptionOrAll(name, its, seps, all_values) ==
    /\ audio_result = <<>>
    /\ audio_result' = <<its, OptionsOf(its, seps), all_values,
                         audio_option_or_all(name, OptionsOf(its, seps), all_values)>>
    /\ UNCHANGED <<EMULATE_ALTGR, KEY_TRANSLATIONS, shortcutvars, kbvars, mapvars,
                   rmenu, numlock, raised>>
    /\ NotCalled

NextAudio ==
    \E n \in 0..MaxItems :
        \E its \in [1..n -> Items], seps \in [1..(n-1) -> {",", "next"}],
           all_values \in AllValues :
            AudioOptionOrAll("speaker-codec", its, seps, all_values)

SpecAudio == Init /\ [][NextAudio]_vars

----------------------------------------------------------------------------
\* What the properties below speak of.

\* How many times the event with identity i has been passed downstream.
Count(i) == Cardinality({k \in DOMAIN sent : sent[k].key_event.id = i})
Sent(i) == Count(i) > 0
\* The event with identity i is the pending one.
Pending(i) == delayed_event # <<>> /\ delayed_event[3].id = i
\* The timeout armed for event i is still scheduled.
Scheduled(i) == In(i, timers)
\* A step in which process_key_event is called, and the event it is called with.
Arrives == Len(arrived') = Len(arrived) + 1
NewEvent == arrived'[Len(arrived')]
\* A step in which a GLib timeout fires.
TimerStep == Len(timers') = Len(timers) - 1 /\ arrived' = arrived
\* Event ev is delivered as the Control_L press it arrived as.
GenuineControlPress(ev) ==
    /\ ev.keyname = "Control_L" /\ ev.pressed
    /\ arrived[ev.id].keyname = "Control_L" /\ arrived[ev.id].pressed
    /\ ev.keyval = arrived[ev.id].keyval /\ ev.keycode = arrived[ev.id].keycode
    /\ ev.group = arrived[ev.id].group /\ ev.string = arrived[ev.id].string
\* Once an event that has arrived is not pending, nothing more of it is sent.
SettledStaysSettled ==
    \A i \in 1..Len(arrived) : ~Pending(i) => (Count(i)' = Count(i) /\ ~Pending(i)')

----------------------------------------------------------------------------
\* C1: under active emulation, a Control_L press that became pending (Right-Alt
\* reported up) and is followed by an Alt_R press before the timeout armed for it
\* fires is never passed downstream: it has not been sent when the Alt_R handler
\* returns, and nothing sends it later.
C1_ControlBeforeAltRNeverSent ==
    /\ [][ \A c \in 1..Len(arrived) :
             (/\ Arrives /\ Active
              /\ NewEvent.keyname = "Alt_R" /\ NewEvent.pressed
              /\ c = Len(arrived)
              /\ arrived[c].keyname = "Control_L" /\ arrived[c].pressed
              /\ Scheduled(c))
             => ~Sent(c)' /\ ~Pending(c)' ]_vars
    /\ [][SettledStaysSettled]_vars

C3_TimeoutSendsOnlyItsOwnEvent ==
    [][ (TimerStep /\ sent' # sent)
        => sent'[Len(sent')].key_event.id = Head(timers) ]_vars

\* C4, as claimed: whenever a Control_L event arrives (under active emulation)
\* while another event is pending, the pending one is discarded: it is not sent by that call and is no
\* longer pending after it.
C4_ControlAlwaysSupersedes ==
    [][ \A c \in 1..Len(arrived) :
          (Arrives /\ Active /\ NewEvent.keyname = "Control_L" /\ Pending(c))
          => ~Pending(c)' /\ Count(c)' = 0 ]_vars

\* C4, amended: there is at most one pending record, an event that has arrived
\* and has not been sent; when a Control_L event arrives under active emulation
\* with Right-Alt reported up while another event is pending, the earlier one is
\* discarded (the new one takes its place) and is never sent.
C4_ControlSupersedesIfRMenuUp ==
    /\ [](delayed_event # <<>> =>
            /\ Len(delayed_event) = 3
            /\ delayed_event[3].id \in 1..Len(arrived)
            /\ ~Sent(delayed_event[3].id))
    /\ [][ \A c \in 1..Len(arrived) : \A n \in {Len(arrived) + 1} :
             (/\ Arrives /\ NewEvent.keyname = "Control_L" /\ Pending(c)
              /\ Active /\ rmenu \in {0, 1})
             => /\ Pending(n)'
                /\ ~Pending(c)'
                /\ Count(c)' = 0
                /\ sent' = sent ]_vars
    /\ [][SettledStaysSettled]_vars

\* C4's case: a second Control_L arrived while the first was pending and took its
\* place; the first was never sent.
C4_Witness ==
    /\ Len(arrived) >= 2
    /\ arrived[1].keyname = "Control_L" /\ arrived[2].keyname = "Control_L"
    /\ timers = <<1, 2>>
    /\ Pending(2)
    /\ ~Sent(1)

\* C5: at most one disambiguation timeout is scheduled at any time.
C5_AtMostOneTimer == Len(timers) <= 1

\* C6: under active emulation every Alt_R event is sent exactly once, by the
\* call that received it, as a pure modifier refresh: empty keyname and string,
\* keyval, keycode and group all -1; it is never stored as pending and nothing
\* sends it again.
C6_AltRSentOnceAsRefresh ==
    /\ [][ \A n \in {Len(arrived) + 1} :
             (Arrives /\ Active /\ NewEvent.keyname = "Alt_R")
             => /\ Len(sent') >= 1
                /\ LET out == sent'[Len(sent')]
                   IN  /\ out.key_event.id = n
                       /\ out.via = "direct"
                       /\ out.key_event.keyname = "" /\ out.key_event.string = ""
                       /\ out.key_event.keyval = -1 /\ out.key_event.keycode = -1
                       /\ out.key_event.group = -1
                       /\ out.key_event.pressed = NewEvent.pressed
                /\ Count(n)' = 1
                /\ ~Pending(n)' ]_vars
    /\ [][ \A i \in 1..Len(arrived) :
             arrived[i].keyname = "Alt_R" => Count(i)' = Count(i) /\ ~Pending(i)' ]_vars

\* C6's case: an Alt_R event has been sent as a refresh.
C6_Witness ==
    \E k \in DOMAIN sent :
        /\ arrived[sent[k].key_event.id].keyname = "Alt_R"
        /\ sent[k].key_event.keyname = ""
        /\ sent[k].key_event.keycode = -1

\* C7: the AltGr modifier is the one the current modifier map gives: the
\* modifier of ISO_Level3_Shift, else that of Mode_switch, else none.
C7_AltGrFollowsTheMap ==
    altgr_modifier =
        (IF modifier_keys["ISO_Level3_Shift"] # None THEN modifier_keys["ISO_Level3_Shift"]
         ELSE IF modifier_keys["Mode_switch"] # None THEN modifier_keys["Mode_switch"]
         ELSE None)

\* Bit b (a power of two) is set in mask m.
BitSet(m, b) == (m \div b) % 2 = 1

\* C8, as claimed: with emulation enabled, an AltGr modifier bound and Right-Alt
\* reported down, the result of mask_to_names contains the AltGr token and
\* neither "control" nor "mod1", whatever the bindings and the NumLock state.
C8_AltGrInjectedForEveryBinding ==
    (called /\ EMULATE_ALTGR /\ altgr_modifier # None /\ rmenu \notin {0, 1})
    => /\ In(altgr_modifier, names)
       /\ ~In("control", names)
       /\ ~In("mod1", names)

\* C8, amended: in that case the result contains the AltGr token unless the token
\* is itself one of "mod1", "mod2", "control" (stripped right after it is added)
\* or NumLock is bound to the same token and reported off; and it contains
\* neither "control" nor "mod1" unless NumLock is bound to that token and
\* reported on (the NumLock patch runs after the AltGr one).
C8_AltGrInjectedUnlessClash ==
    (called /\ EMULATE_ALTGR /\ altgr_modifier # None /\ rmenu \notin {0, 1})
    => /\ (/\ altgr_modifier \notin {"mod1", "mod2", "control"}
           /\ ~(num_lock_modifier = altgr_modifier /\ numlock = 0))
          => In(altgr_modifier, names)
       /\ \A t \in {"control", "mod1"} :
            ~(num_lock_modifier = t /\ numlock # 0) => ~In(t, names)

\* C8's case: Right-Alt is down, the mask has the control and mod1 bits, and the
\* result has the AltGr token mod5 in their place.
C8_Witness ==
    /\ called /\ EMULATE_ALTGR /\ altgr_modifier = "mod5" /\ rmenu = -128
    /\ BitSet(mask, 4) /\ BitSet(mask, 8) /\ ~BitSet(mask, 128)
    /\ In("mod5", names) /\ ~In("control", names) /\ ~In("mod1", names)

\* C9: when a NumLock modifier is bound, the result of mask_to_names contains its
\* token exactly when NumLock is on (the toggle bit of the key state).
C9_NumLockTokenIffToggleOn ==
    (called /\ num_lock_modifier # None)
    => (In(num_lock_modifier, names) <=> numlock % 2 = 1)

\* C10: when no AltGr modifier is bound, the result of mask_to_names is the same
\* whether Right-Alt is reported down or up.
C10_NoAltGrBindingNoRMenuEffect ==
    (called /\ altgr_modifier = None)
    => \A r \in KeyStates : names = mask_to_names(mask, r, numlock)

----------------------------------------------------------------------------
\* The event is delivered with the key identity it arrived with.
SameKey(out, ev) ==
    /\ out.keyname = ev.keyname /\ out.keyval = ev.keyval
    /\ out.keycode = ev.keycode /\ out.group = ev.group
    /\ out.string = ev.string /\ out.pressed = ev.pressed

\* C11: when AltGr emulation is inactive (toggle off, or no AltGr modifier, or
\* empty modifier mappings), a Control_L or Alt_R event is sent by the call that
\* received it, once, with its key identity unchanged; after the call nothing is
\* pending and no timer has been armed; nothing sends the event again.
C11_InactivePassesThrough ==
    /\ [][ \A n \in {Len(arrived) + 1} :
             (/\ Arrives
              /\ ~(EMULATE_ALTGR /\ altgr_modifier # None /\ Len(modifier_mappings) > 0)
              /\ NewEvent.keyname \in {"Control_L", "Alt_R"})
             => /\ Len(sent') >= 1
                /\ LET out == sent'[Len(sent')]
                   IN  /\ out.via = "direct"
                       /\ out.key_event.id = n
                       /\ SameKey(out.key_event, NewEvent)
                /\ Count(n)' = 1
                /\ delayed_event' = <<>>
                /\ timers' = timers ]_vars
    /\ [][SettledStaysSettled]_vars

\* C11's case: with the toggle on and an AltGr modifier left from an earlier
\* map, the modifier mappings are empty and a Control_L press went straight
\* through.
C11_Witness ==
    /\ EMULATE_ALTGR /\ altgr_modifier # None /\ modifier_mappings = <<>>
    /\ Len(arrived) >= 1 /\ Len(sent) >= 1
    /\ arrived[Len(arrived)].keyname = "Control_L"
    /\ sent[Len(sent)].via = "direct"
    /\ sent[Len(sent)].key_event.id = Len(arrived)
    /\ sent[Len(sent)].key_event.keyname = "Control_L"

\* The hyper flag as the i-th event arrives: the pressed value of the last Delete
\* event before it.
HyperAt(i) ==
    LET D == {j \in 1..(i-1) : j <= Len(arrived) /\ arrived[j].keyname = "Delete"}
    IN  IF D = {} THEN FALSE
        ELSE arrived[CHOOSE j \in D : \A k \in D : k <= j].pressed

\* Event e, sent or pending, carries mod4 exactly if it arrived with it or the
\* hyper flag was set as it arrived.
HyperTokenRight(e) ==
    arrived[e.id].keyname # "Delete"
    => (In("mod4", e.modifiers)
        <=> (HyperAt(e.id) \/ In("mod4", arrived[e.id].modifiers)))

\* C12: a key state query that raises is never fatal: no handler lets the
\* exception escape to its caller.
C12_QueryFailureNeverEscapes == ~raised

\* C13: the hyper flag is the pressed value of the most recent Delete event
\* (false before any); a non-Delete event that is sent or pending carries mod4
\* exactly if the flag was set as it arrived, with emulation active or not.
C13_HyperFlagAndToken ==
    /\ hyper_modifier = HyperAt(Len(arrived) + 1)
    /\ \A k \in DOMAIN sent : HyperTokenRight(sent[k].key_event)
    /\ delayed_event # <<>> => HyperTokenRight(delayed_event[3])

\* C13's case: a Control_L that arrived while the flag was set is pending with
\* mod4 attached, and an event that arrived while it was set has been sent with it.
C13_Witness ==
    /\ delayed_event # <<>> /\ In("mod4", delayed_event[3].modifiers)
    /\ \E k \in DOMAIN sent : In("mod4", sent[k].key_event.modifiers)

\* The elements of a list.
Range(l) == {l[i] : i \in DOMAIN l}

\* The AltGr and NumLock patches of mask_to_names applied to the list it returned,
\* under the same query results.
Repatched ==
    LET altgr == IF EMULATE_ALTGR /\ ~RMenuUp(rmenu) THEN AltGr_modifiers(names, TRUE)
                 ELSE names
    IN  IF num_lock_modifier # None THEN NumLockPatch(altgr, numlock) ELSE altgr

\* C14: mask_to_names is idempotent (patching the names it returned again, under
\* the same bindings and query results, gives the same set) and has no side
\* effect: a call changes neither the pending record, nor the hyper flag, nor
\* the NumLock and AltGr modifiers, nor what is scheduled or sent.
C14_MaskToNamesIdempotentNoSideEffect ==
    /\ [](called => Range(Repatched) = Range(names))
    /\ [][ called' => UNCHANGED <<delayed_event, hyper_modifier, num_lock_modifier,
                                  altgr_modifier, timers, sent>> ]_vars

\* C14's case: mask_to_names returned patched names (Right-Alt down, NumLock
\* bound) while a Control_L was pending and the hyper flag was set.
C14_Witness ==
    /\ called /\ delayed_event # <<>> /\ hyper_modifier
    /\ num_lock_modifier # None /\ altgr_modifier # None
    /\ EMULATE_ALTGR /\ rmenu = -128
    /\ Range(names) # Range(BaseMaskToNames(mask))

\* C15: on a keyboard with no modifier map bound, mask_to_names of a mask of the
\* shift, lock and control bits returns exactly the tokens whose bit is set,
\* whatever key state is reported.
C15_FreshKeyboardPlainDecomposition ==
    (/\ called /\ mask \in 0..7
     /\ modifier_mappings = <<>> /\ num_lock_modifier = None /\ altgr_modifier = None)
    => Range(names) = Range(BaseMaskToNames(mask))

\* C16: a shortcut lookup yields an action only for a press and only if some
\* binding of that key requires exactly the set of modifiers held ("#" standing
\* for the primary shortcut modifiers): one more modifier held, or one fewer, is
\* no match; and the order the held modifiers are reported in does not matter.
C16_ExactSetMatch ==
    matched # <<>> =>
        LET held == Range(matched[2])
        IN  /\ matched[5] # None
               => /\ matched[3]
                  /\ \E i \in DOMAIN key_shortcuts :
                        /\ key_shortcuts[i].keyname = matched[1]
                        /\ key_shortcuts[i].action = matched[5]
                        /\ Required(key_shortcuts[i].modifiers, matched[4]) = held
            /\ \A a \in HeldModifiers :
                  Range(a) = held
                  => matches(key_shortcuts, matched[1], a, matched[3], matched[4])
                     = matched[5]

\* C16's case: a binding written Shift+Control+F3 matched a press of F3 with
\* control and shift held, reported in the other order.
C16_Witness ==
    /\ matched # <<>>
    /\ matched[1] = "F3" /\ matched[2] = <<"control", "shift">>
    /\ matched[5] = "show_bug_report"

\* The table has bindings on "#" alone and bindings on other modifiers.
MixedTable ==
    /\ \E i \in DOMAIN key_shortcuts : key_shortcuts[i].modifiers = {"#"}
    /\ \E i \in DOMAIN key_shortcuts : "#" \notin key_shortcuts[i].modifiers
\* Key k is bound on "#" alone, to action a.
HashBinding(k, a) ==
    \E i \in DOMAIN key_shortcuts :
        /\ key_shortcuts[i].keyname = k /\ key_shortcuts[i].action = a
        /\ key_shortcuts[i].modifiers = {"#"}

C18_TranslationsOnlyFromInit ==
    KEY_TRANSLATIONS = { << <<"period", 46, 110>>, "KP_Decimal" >>,
                         << <<"dead_tilde", 65107, 50>>, "asciitilde" >>,
                         << <<"dead_grave", 65104, 55>>, "grave" >> }

\* C18's case: init_vars ran again (the AltGr modifier is unset although a
\* timeout was armed under emulation) after key events, and the table has its
\* three entries.
C18_Witness ==
    /\ timers # <<>> /\ altgr_modifier = None /\ Len(arrived) >= 2
    /\ Cardinality(KEY_TRANSLATIONS) = 3

\* C19: only a Control_L press becomes pending or arms a timeout, never a
\* release.
C19_OnlyPressesPending ==
    /\ delayed_event # <<>> => delayed_event[3].pressed
    /\ \A k \in DOMAIN timers : arrived[timers[k]].pressed

\* C20: the refresh sent for an Alt_R event under active emulation carries the
\* AltGr token exactly if Right-Alt is reported down as the event is handled.
C20_LiveRMenuDecidesToken ==
    [][ (Arrives /\ Active /\ NewEvent.keyname = "Alt_R")
        => /\ Len(sent') >= 1
           /\ (In(altgr_modifier, sent'[Len(sent')].key_event.modifiers)
               <=> rmenu \notin {0, 1}) ]_vars

----------------------------------------------------------------------------
\* The two adjustments of mask_to_names, each on a list l, under the live state.
NumLockAdjusted(l) ==
    IF num_lock_modifier = None THEN l
    ELSE IF numlock # 0
         THEN (IF In(num_lock_modifier, l) THEN l ELSE Append(l, num_lock_modifier))
         ELSE (IF In(num_lock_modifier, l) THEN Remove(l, num_lock_modifier) ELSE l)
AltGrAdjusted(l) ==
    IF EMULATE_ALTGR /\ rmenu \notin {0, 1}
    THEN RemovePresent(
             IF altgr_modifier # None /\ ~In(altgr_modifier, l)
             THEN Append(l, altgr_modifier) ELSE l,
             <<"mod1", "mod2", "control">>)
    ELSE l

\* C21, as claimed: the result of mask_to_names is the base decomposition with
\* the NumLock adjustment applied first and the AltGr adjustment second.
C21_NumLockThenAltGr ==
    called => names = AltGrAdjusted(NumLockAdjusted(BaseMaskToNames(mask)))

\* C21, amended: the result is the base decomposition with the AltGr adjustment
\* applied first and the NumLock adjustment second; so when a NumLock modifier
\* is bound its token is in the result exactly if NumLock is reported set, also
\* when the AltGr adjustment strips that token.
C21_AltGrThenNumLock ==
    called => /\ names = NumLockAdjusted(AltGrAdjusted(BaseMaskToNames(mask)))
              /\ num_lock_modifier # None
                 => (In(num_lock_modifier, names) <=> numlock # 0)

\* C21's case: NumLock is bound to mod2 and reported on, Right-Alt is down: the
\* AltGr adjustment stripped mod2 and the NumLock adjustment put it back.
C21_Witness ==
    /\ called /\ EMULATE_ALTGR /\ rmenu = -128 /\ altgr_modifier = "mod5"
    /\ num_lock_modifier = "mod2" /\ numlock = 1
    /\ BitSet(mask, 16)
    /\ In("mod2", names) /\ In("mod5", names)

\* C23: events are sent in the order they arrived: the identities of what was
\* sent are strictly increasing, and nothing that arrived after the pending
\* Control_L has been sent, so a Control_L is never sent after a later key.
C23_DeliveryKeepsArrivalOrder ==
    /\ \A k \in 1..(Len(sent) - 1) :
          sent[k].key_event.id < sent[k+1].key_event.id
    /\ \A k \in DOMAIN sent : sent[k].key_event.id \in 1..Len(arrived)
    /\ delayed_event # <<>>
       => \A k \in DOMAIN sent : sent[k].key_event.id < delayed_event[3].id

\* C23's case: a Control_L that was pending was flushed by the call that
\* received the next key, and sent before it.
C23_Witness ==
    /\ Len(sent) >= 2
    /\ sent[1].via = "flush" /\ sent[1].key_event.keyname = "Control_L"
    /\ sent[2].via = "direct" /\ sent[2].key_event.id = sent[1].key_event.id + 1

\* C24: no event is sent more than once, and the pending event has not been
\* sent.
C24_NoDoubleDelivery ==
    /\ \A i \in 1..Len(arrived) : Count(i) <= 1
    /\ delayed_event # <<>> => ~Sent(delayed_event[3].id)

\* C24's case: two timeouts were outstanding for two Control_L events; both have
\* fired and only the second event was sent, once.
C24_Witness ==
    /\ Len(arrived) >= 2 /\ timers = <<>> /\ delayed_event = <<>>
    /\ arrived[1].keyname = "Control_L" /\ arrived[2].keyname = "Control_L"
    /\ Count(1) = 0 /\ Count(2) = 1
    /\ \E k \in DOMAIN sent : sent[k].key_event.id = 2 /\ sent[k].via = "timeout"

\* C25: under active emulation a Control_L event that arrives while Right-Alt
\* is reported down is discarded: the call leaves the pending record, the
\* timeouts and what was sent as they were, and the event is never sent.
C25_ControlDiscardedWhenRMenuDown ==
    /\ [][ \A n \in {Len(arrived) + 1} :
             (/\ Arrives /\ Active
              /\ NewEvent.keyname = "Control_L" /\ rmenu \notin {0, 1})
             => /\ UNCHANGED <<delayed_event, timers, sent>>
                /\ ~Pending(n)' ]_vars
    /\ [][SettledStaysSettled]_vars

\* C25's case: a second Control_L arrived with Right-Alt down while the first
\* was pending: the first is still pending, with its timeout alone.
C25_Witness ==
    /\ Len(arrived) = 2 /\ arrived[2].keyname = "Control_L"
    /\ Pending(1) /\ timers = <<1>> /\ sent = <<>>

\* C26: a VoidSymbol event with keyval 2^24-1 has no effect: the call leaves
\* what was sent, the pending record, the timeouts and the hyper flag as they
\* were.
C26_VoidSymbolIgnored ==
    [][ (Arrives /\ NewEvent.keyname = "VoidSymbol" /\ NewEvent.keyval = 16777215)
        => UNCHANGED <<sent, delayed_event, timers, hyper_modifier>> ]_vars

\* C26's case: a VoidSymbol event arrived while a Control_L was pending and the
\* hyper flag was set; the Control_L is still pending.
C26_Witness ==
    /\ Len(arrived) >= 2 /\ arrived[Len(arrived)].keyname = "VoidSymbol"
    /\ Pending(Len(arrived) - 1) /\ timers # <<>>

\* C22: while an event is pending the timeout armed for it is still scheduled,
\* and, every scheduled timeout firing in the end, a pending record does not
\* stay: a state with an event pending is followed by one with none.
C22_PendingIsResolved ==
    /\ [](delayed_event # <<>> => Scheduled(delayed_event[3].id))
    /\ (delayed_event # <<>>) ~> (delayed_event = <<>>)

\* C22's case: a Control_L is pending that replaced an earlier one; the timeouts
\* of both are scheduled, its own last.
C22_Witness ==
    /\ delayed_event # <<>>
    /\ Len(timers) = 2 /\ timers[2] = delayed_event[3].id
    /\ timers[1] < timers[2]

\* C27: audio_option_or_all returns all_values when options is empty; otherwise
\* it returns, in the order written, the names of the items (comma separated
\* or given as separate options, blanks around them stripped) that are in
\* all_values, and nothing else.
C27_AudioOptionOrAll ==
    audio_result # <<>> =>
        LET its        == audio_result[1]
            options    == audio_result[2]
            all_values == audio_result[3]
            result     == audio_result[4]
            Valid(it)  == it.core \in Range(all_values)
            written    == SelectSeq(its, Valid)
        IN  /\ options = <<>> => result = all_values
            /\ options # <<>>
               => /\ result = [i \in 1..Len(written) |-> written[i].core]
                  /\ \A i \in DOMAIN result : result[i] \in Range(all_values)

\* C27's case: an option with a comma and blanks in it, one item valid and one
\* not, gave the valid one alone.
C27_Witness ==
    /\ audio_result # <<>>
    /\ audio_result[2] = << <<" ", "x", " ", ",", " ", "a", " ">> >>
    /\ audio_result[4] = << <<"a">> >>

====
